---- MODULE Spec2Model ----
(***************************************************************************)
(* A model of Zerust: the wire codec (datapack.rs), the Connection that    *)
(* turns a byte stream into Requests (connection.rs) and the DashMap       *)
(* backed DefaultRouter (router.rs).                                       *)
(*                                                                         *)
(* Bytes are naturals in 0..255, byte strings are sequences of bytes.      *)
(* A u32 is a natural; TLC's integers are 32 bit signed, so the model      *)
(* only builds u32 values below 2^31.                                      *)
(***************************************************************************)
EXTENDS Integers, Sequences, FiniteSets, TLC

VARIABLES
    codec,          \* codec harness: the last DataPack call and its result
    stream,         \* TcpStream, inbound side: bytes sent by the peer, not yet read
    peer_closed,    \* TcpStream: the peer has shut its sending side
    pending_data,   \* Connection.pending_data
    pc,             \* position of the unit inside Connection::read_request
    hdr,            \* read_request locals: header_bytes, msg_id, data_len
    results,        \* one entry per read_request call that returned
    sent,           \* ghost: the messages whose frames the peer wrote
    delivered,      \* ghost: every byte stream.read has returned so far
    reads,          \* ghost: number of stream.read calls that returned bytes
    lastread,       \* ghost: outcome of the latest stream.read of the current call
    routes,         \* DefaultRouter.routes: per DashMap shard, its (id, handler) entries
    locks,          \* DashMap: per shard, the state of its RwLock
    upc,            \* per unit: position inside add_route or handle
    uarg,           \* per unit: the arguments of its running call
    uloc,           \* per unit: what its running call holds
    ures,           \* per unit: the Response its last handle returned
    added,          \* ghost: per id, the add_route calls made so far
    ops,            \* ghost: number of router calls made so far
    overlap,        \* ghost: an add_route was called while another was running
    run,            \* Server::run: its position and, once it returned, its result
    listener,       \* the TcpListener of Server::run
    stop,           \* the external stop signal has been given
    cstate,         \* per connection: not made, waiting in the backlog, accepted
    peer,           \* per connection: the client end, what it still has to write
    inbox,          \* per connection: bytes the client wrote, not yet read
    psent,          \* ghost: per connection, every byte the client wrote
    unit,           \* per connection: the task running handle_connection
    out,            \* per connection: bytes the server wrote to the transport
    handled,        \* ghost: per connection, the router.handle calls made
    nsent           \* ghost: number of frames the clients began to write

codecVars == <<codec>>
connVars  == <<stream, peer_closed, pending_data, pc, hdr, results, sent,
               delivered, reads, lastread>>
routerVars == <<routes, locks, upc, uarg, uloc, ures, added, ops, overlap>>
serverVars == <<run, listener, stop, cstate, peer, inbox, psent, unit, out,
                handled, nsent>>
vars == <<codec, stream, peer_closed, pending_data, pc, hdr, results, sent,
          delivered, reads, lastread, routes, locks, upc, uarg, uloc, ures,
          added, ops, overlap, run, listener, stop, cstate, peer, inbox,
          psent, unit, out, handled, nsent>>

-----------------------------------------------------------------------------
(* Bounds of the model *)

\* longest payload handed to pack in the codec specification
MaxPayload == 2
\* number of frames the peer writes on one connection
MaxMsgs == 2
\* number of units that call the router concurrently
NumUnits == 2
\* number of add_route and handle calls made on the router
MaxOps == 3
\* number of shards of the DashMap
NumShards == 2
\* number of connections made to the server
MaxConns == 2
\* number of frames the clients of a server write, all connections together
MaxReqs == 2

-----------------------------------------------------------------------------
(* Values *)

Min(a, b) == IF a < b THEN a ELSE b

Drop(s, n) == SubSeq(s, n + 1, Len(s))
Take(s, n) == SubSeq(s, 1, n)

\* Result<_, ZerustError>
Ok(v)  == [ok |-> TRUE, val |-> v]
Err(e) == [ok |-> FALSE, err |-> e]

\* From<io::Error> for ZerustError (#[from] on IoError): what `?` does to an
\* io::Error
FromIoError == "IoError"

Request(msg_id, data)  == [msg_id |-> msg_id, data |-> data]
Response(msg_id, data) == [msg_id |-> msg_id, data |-> data]

-----------------------------------------------------------------------------
(* datapack.rs *)

\* WriteBytesExt::write_u32::<LittleEndian>: the k low bytes of n, least
\* significant first (with k = 4 this is also the `as u32` truncation)
RECURSIVE LEBytes(_, _)
LEBytes(n, k) == IF k = 0 THEN <<>> ELSE <<n % 256>> \o LEBytes(n \div 256, k - 1)

\* the value cut to 16 bits before it is written (an `as u16` slip)
write_u32_Truncated16(n) == LEBytes(n % 65536, 4)

write_u32(n) == LEBytes(n, 4)

\* ReadBytesExt::read_u32::<LittleEndian> on a Cursor at position pos:
\* UnexpectedEof (an io::Error) unless 4 bytes remain
read_u32(bytes, pos) ==
    IF Len(bytes) - pos < 4
    THEN Err("UnexpectedEof")
    ELSE Ok(bytes[pos + 1] + 256 * (bytes[pos + 2]
            + 256 * (bytes[pos + 3] + 256 * bytes[pos + 4])))

\* DataPack::unpack_header
unpack_header(header) ==
    LET id == read_u32(header, 0) IN
    IF ~id.ok THEN Err(FromIoError) ELSE
    LET dl == read_u32(header, 4) IN
    IF ~dl.ok THEN Err(FromIoError) ELSE
    Ok([msg_id |-> id.val, data_len |-> dl.val])

\* the frame with the length written before the id (a field-order slip)
pack_LenFirst(msg_id, data) == write_u32(Len(data)) \o write_u32(msg_id) \o data

\* DataPack::pack
pack(msg_id, data) == write_u32(msg_id) \o write_u32(Len(data)) \o data

-----------------------------------------------------------------------------
(* connection.rs *)

\* Connection::HEADER_SIZE
HEADER_SIZE == 8

\* the size of the temporary buffer handed to stream.read
BufSize == 1024

\* the read_request locals while no header has been decoded
NoHdr == <<>>

\* the new bytes put in front of the buffered ones (an append slip)
read_loop_step_Prepend(buf, chunk) ==
    IF Len(chunk) = 0 THEN Err("ConnectionClosed") ELSE Ok(chunk \o buf)

\* a zero-byte read reported as an I/O fault (an error-kind slip)
read_loop_step_EofAsIo(buf, chunk) ==
    IF Len(chunk) = 0 THEN Err(FromIoError) ELSE Ok(buf \o chunk)

\* a zero-byte read taken as a read of nothing (an end-of-stream slip)
read_loop_step_EofIgnored(buf, chunk) == Ok(buf \o chunk)

\* read_exact, the body of its loop after stream.read returned chunk:
\* n == 0 is ConnectionClosed, otherwise the bytes go to the back of
\* pending_data
read_loop_step(buf, chunk) ==
    IF Len(chunk) = 0 THEN Err("ConnectionClosed") ELSE Ok(buf \o chunk)

\* a read_exact that empties the buffer instead of draining its front (a
\* carry-over slip)
read_exact_Clear(buf, size) ==
    IF Len(buf) < size
    THEN [await |-> TRUE, pending |-> buf]
    ELSE [await |-> FALSE, pending |-> <<>>, bytes |-> Take(buf, size)]

\* a read_exact that wants one byte more than asked (a comparison slip)
read_exact_OneMore(buf, size) ==
    IF Len(buf) <= size
    THEN [await |-> TRUE, pending |-> buf]
    ELSE [await |-> FALSE, pending |-> Drop(buf, size), bytes |-> Take(buf, size)]

\* read_exact from the test of its loop: with fewer than size bytes buffered
\* it awaits stream.read, otherwise it drains the first size bytes and
\* returns them
read_exact(buf, size) ==
    IF Len(buf) < size
    THEN [await |-> TRUE, pending |-> buf]
    ELSE [await |-> FALSE, pending |-> Drop(buf, size), bytes |-> Take(buf, size)]

\* the outcome of running read_request up to its next await or its return
Awaiting(at, buf, h) == [pc |-> at, pending |-> buf, hdr |-> h, ret |-> <<>>]
Returned(buf, res) ==
    [pc |-> IF res.ok THEN "idle" ELSE "failed", pending |-> buf, hdr |-> NoHdr,
     ret |-> <<res>>]

\* a body read that returns what is buffered instead of waiting for
\* data_len bytes (a truncation slip)
read_body_Short(buf, h) ==
    Returned(Drop(buf, Min(Len(buf), h.data_len)),
             Ok(Request(h.msg_id, Take(buf, Min(Len(buf), h.data_len)))))

\* a body read that awaits the transport before it looks at the length (a
\* read-first slip)
read_body_ZeroWaits(buf, h) ==
    LET r == read_exact(buf, h.data_len) IN
    IF r.await \/ h.data_len = 0 THEN Awaiting("body", buf, h)
    ELSE Returned(r.pending, Ok(Request(h.msg_id, r.bytes)))

\* read_request from `let data = ...` on, the header h decoded
read_body(buf, h) ==
    IF h.data_len > 0
    THEN LET r == read_exact(buf, h.data_len) IN
         IF r.await THEN Awaiting("body", buf, h)
         ELSE Returned(r.pending, Ok(Request(h.msg_id, r.bytes)))
    ELSE Returned(buf, Ok(Request(h.msg_id, <<>>)))

\* a header read that asks read_exact for one byte too few (an off-by-one
\* slip)
read_header_Short(buf) ==
    LET r == read_exact(buf, HEADER_SIZE - 1) IN
    IF r.await THEN Awaiting("header", buf, NoHdr)
    ELSE LET u == unpack_header(r.bytes) IN
         IF ~u.ok THEN Returned(r.pending, Err(u.err))
         ELSE read_body(r.pending, [header_bytes |-> r.bytes,
                                    msg_id |-> u.val.msg_id,
                                    data_len |-> u.val.data_len])

\* read_request from its first line
read_header(buf) ==
    LET r == read_exact(buf, HEADER_SIZE) IN
    IF r.await THEN Awaiting("header", buf, NoHdr)
    ELSE LET u == unpack_header(r.bytes) IN
         IF ~u.ok THEN Returned(r.pending, Err(u.err))
         ELSE read_body(r.pending, [header_bytes |-> r.bytes,
                                    msg_id |-> u.val.msg_id,
                                    data_len |-> u.val.data_len])

\* read_request resumed at the await it is suspended on, pending_data now buf
read_request(at, buf, h) ==
    IF at = "header" THEN read_header(buf) ELSE read_body(buf, h)

\* read_response: the same steps as read_request, the value built by
\* Response::new, which holds the same two fields
read_response(at, buf, h) == read_request(at, buf, h)

-----------------------------------------------------------------------------
(* response.rs, router.rs *)

\* b"Route not found"
RouteNotFound == <<82, 111, 117, 116, 101, 32, 110, 111, 116, 32, 102, 111, 117, 110, 100>>

\* b"Hello, World!"
HelloWorld == <<72, 101, 108, 108, 111, 44, 32, 87, 111, 114, 108, 100, 33>>

\* a not-found answer without its text (a body slip)
not_found_NoBody == Response(404, <<>>)

\* Response::not_found
not_found == Response(404, RouteNotFound)

\* the handlers the repository registers: the echo closure and the closure
\* that answers "Hello, World!"
Handlers == {"echo", "hello"}

\* a Handler called on a Request
Apply(h, req) ==
    IF h = "echo" THEN Response(req.msg_id, req.data)
    ELSE Response(req.msg_id, HelloWorld)

Units == 1..NumUnits
Shards == 0..(NumShards - 1)

\* DashMap::determine_map: the shard a key hashes to
ShardOf(msg_id) == msg_id % NumShards

None == [some |-> FALSE]
Some(v) == [some |-> TRUE, val |-> v]

\* a get that answers with any entry of the shard (a key-comparison slip)
Lookup_AnyEntry(table, msg_id) ==
    IF table # {} THEN Some((CHOOSE e \in table : TRUE)[2]) ELSE None

\* HashMap::get on a shard's table
Lookup(table, msg_id) ==
    IF \E e \in table : e[1] = msg_id
    THEN Some((CHOOSE e \in table : e[1] = msg_id)[2])
    ELSE None

\* an insert that keeps the entry already there (entry().or_insert slip)
HashMapInsert_KeepOld(table, msg_id, h) ==
    IF \E e \in table : e[1] = msg_id THEN table ELSE table \cup {<<msg_id, h>>}

\* HashMap::insert on a shard's table: the value of an existing key is
\* replaced
HashMapInsert(table, msg_id, h) ==
    {e \in table : e[1] # msg_id} \cup {<<msg_id, h>>}

Unlocked == [writer |-> 0, readers |-> {}]

\* a write lock taken without waiting for the other holders (a locking slip)
CanWrite_NoWait(l) == TRUE

\* RwLock::write can be granted: no writer and no reader holds the shard
CanWrite(l) == l.writer = 0 /\ l.readers = {}

\* RwLock::read can be granted: no writer holds the shard
CanRead(l) == l.writer = 0

\* the handle that answers not-found whatever the table holds (a lookup slip)
handle_result_NeverFound(entry, req) == not_found

\* DefaultRouter::handle, the match on the looked-up entry
handle_result(entry, req) ==
    IF entry.some THEN Apply(entry.val, req) ELSE not_found

-----------------------------------------------------------------------------
(* The codec specification: pack and unpack_header applied to inputs drawn *)
(* from bounded sets.                                                      *)

\* ids with a non-zero byte in each of the four positions, the reserved 404,
\* and the extremes TLC can hold
CodecIds == {0, 1, 255, 256, 404, 65536, 16909060, 2147483647}
CodecBytes == {0, 1, 255}

RECURSIVE SeqsUpTo(_, _)
SeqsUpTo(S, n) ==
    IF n = 0 THEN {<<>>}
    ELSE LET shorter == SeqsUpTo(S, n - 1)
         IN shorter \cup {Append(s, b) : s \in {x \in shorter : Len(x) = n - 1}, b \in S}

NoCall == [op |-> "none"]

\* a caller packs (msg_id, data)
Pack(msg_id, data) ==
    /\ codec' = [op |-> "pack", msg_id |-> msg_id, data |-> data,
                 bytes |-> pack(msg_id, data)]
    /\ UNCHANGED <<connVars, routerVars, serverVars>>

\* a caller hands the first n bytes of a frame to unpack_header
UnpackHeader(n) ==
    /\ codec.op = "pack"
    /\ n <= Len(codec.bytes)
    /\ codec' = [op |-> "unpack", msg_id |-> codec.msg_id, data |-> codec.data,
                 bytes |-> codec.bytes, header |-> Take(codec.bytes, n),
                 res |-> unpack_header(Take(codec.bytes, n))]
    /\ UNCHANGED <<connVars, routerVars, serverVars>>

ConnUnused ==
    /\ stream = <<>>
    /\ peer_closed = FALSE
    /\ pending_data = <<>>
    /\ pc = "idle"
    /\ hdr = NoHdr
    /\ results = <<>>
    /\ sent = <<>>
    /\ delivered = <<>>
    /\ reads = 0
    /\ lastread = "none"

\* the ids add_route is called with, and the Requests handle is called with
RouteIds == {1, 2, 7}
HandleReqs == {Request(id, d) : id \in RouteIds \cup {999}, d \in {<<>>, <<7>>}}

NoneAdded == [calls |-> 0, handler |-> "none", done |-> 0, last |-> "none"]

\* DefaultRouter::new
RouterUnused ==
    /\ routes = [s \in Shards |-> {}]
    /\ locks = [s \in Shards |-> Unlocked]
    /\ upc = [u \in Units |-> "idle"]
    /\ uarg = [u \in Units |-> None]
    /\ uloc = [u \in Units |-> None]
    /\ ures = [u \in Units |-> None]
    /\ added = [id \in RouteIds |-> NoneAdded]
    /\ ops = 0
    /\ overlap = FALSE

Conns == 1..MaxConns

\* a connection's task before tokio::spawn
NoUnit ==
    [pc |-> "none", pending |-> <<>>, hdr |-> NoHdr, resp |-> None, wbuf |-> <<>>,
     ret |-> None]

\* a client before it connects
NoPeer == [unsent |-> <<>>, closed |-> FALSE]

\* Server::new
ServerCreated ==
    /\ run = [pc |-> "created", ret |-> None]
    /\ listener = "none"
    /\ stop = FALSE
    /\ cstate = [c \in Conns |-> "none"]
    /\ peer = [c \in Conns |-> NoPeer]
    /\ inbox = [c \in Conns |-> <<>>]
    /\ psent = [c \in Conns |-> <<>>]
    /\ unit = [c \in Conns |-> NoUnit]
    /\ out = [c \in Conns |-> <<>>]
    /\ handled = [c \in Conns |-> <<>>]
    /\ nsent = 0

CodecInit == codec = NoCall /\ ConnUnused /\ RouterUnused /\ ServerCreated

CodecNext ==
    \/ \E msg_id \in CodecIds, data \in SeqsUpTo(CodecBytes, MaxPayload) : Pack(msg_id, data)
    \/ \E n \in 0..(8 + MaxPayload) : UnpackHeader(n)

CodecSpec == CodecInit /\ [][CodecNext]_vars

-----------------------------------------------------------------------------
(* The connection specification: one Connection, owned by one unit, whose  *)
(* peer wrote the frames of `sent`, possibly cut short, and may close.     *)

ConnMsgs == {Request(1, <<>>), Request(2, <<7>>), Request(258, <<7, 9>>)}

Frame(m) == pack(m.msg_id, m.data)

RECURSIVE Frames(_)
Frames(ms) == IF ms = <<>> THEN <<>> ELSE Frame(Head(ms)) \o Frames(Tail(ms))

\* the unit's state after a step of read_request that ended in outcome s
Resume(s) ==
    /\ pc' = s.pc
    /\ pending_data' = s.pending
    /\ hdr' = s.hdr
    /\ results' = results \o s.ret

\* a call can be made: no call is running (nothing in the Connection
\* remembers that a call failed), and at most MaxMsgs calls have returned
CanCall == pc \in {"idle", "failed"} /\ Len(results) < MaxMsgs

\* the unit calls conn.read_request()
ReadRequest ==
    /\ CanCall
    /\ Resume(read_request("header", pending_data, NoHdr))
    /\ lastread' = "none"
    /\ UNCHANGED <<codec, stream, peer_closed, sent, delivered, reads, routerVars, serverVars>>

\* the unit calls conn.read_response()
ReadResponse ==
    /\ CanCall
    /\ Resume(read_response("header", pending_data, NoHdr))
    /\ lastread' = "none"
    /\ UNCHANGED <<codec, stream, peer_closed, sent, delivered, reads, routerVars, serverVars>>

\* stream.read returns the next n bytes the peer sent
StreamRead(n) ==
    /\ pc \in {"header", "body"}
    /\ n >= 1
    /\ n <= Min(Len(stream), BufSize)
    /\ LET r == read_loop_step(pending_data, Take(stream, n)) IN
        IF r.ok THEN Resume(read_request(pc, r.val, hdr))
        ELSE Resume(Returned(pending_data, r))
    /\ stream' = Drop(stream, n)
    /\ delivered' = delivered \o Take(stream, n)
    /\ reads' = reads + 1
    /\ lastread' = "data"
    /\ UNCHANGED <<codec, peer_closed, sent, routerVars, serverVars>>

\* stream.read returns 0: the peer closed and nothing is left to read
StreamReadZero ==
    /\ pc \in {"header", "body"}
    /\ stream = <<>>
    /\ peer_closed
    /\ LET r == read_loop_step(pending_data, <<>>) IN
        IF r.ok THEN Resume(read_request(pc, r.val, hdr))
        ELSE Resume(Returned(pending_data, r))
    /\ lastread' = "eof"
    /\ UNCHANGED <<codec, stream, peer_closed, sent, delivered, reads, routerVars, serverVars>>

\* stream.read fails with an io::Error, which `?` turns into a ZerustError
StreamReadError ==
    /\ pc \in {"header", "body"}
    /\ Resume(Returned(pending_data, Err(FromIoError)))
    /\ lastread' = "err"
    /\ UNCHANGED <<codec, stream, peer_closed, sent, delivered, reads, routerVars, serverVars>>

\* the peer shuts down its side of the connection
PeerClose ==
    /\ ~peer_closed
    /\ peer_closed' = TRUE
    /\ UNCHANGED <<codec, stream, pending_data, pc, hdr, results, sent,
                   delivered, reads, lastread, routerVars, serverVars>>

\* Connection::new, with the bytes the peer has written or will write
Init ==
    /\ codec = NoCall
    /\ sent \in SeqsUpTo(ConnMsgs, MaxMsgs)
    /\ \E cut \in 0..Len(Frames(sent)) :
        /\ sent # <<>> => cut > Len(Frames(Take(sent, Len(sent) - 1)))
        /\ stream = Take(Frames(sent), cut)
    /\ peer_closed = FALSE
    /\ pending_data = <<>>
    /\ pc = "idle"
    /\ hdr = NoHdr
    /\ results = <<>>
    /\ delivered = <<>>
    /\ reads = 0
    /\ lastread = "none"
    /\ RouterUnused
    /\ ServerCreated

Next ==
    \/ ReadRequest
    \/ ReadResponse
    \/ \E n \in 1..Min(Len(stream), BufSize) : StreamRead(n)
    \/ StreamReadZero
    \/ StreamReadError
    \/ PeerClose

Spec == Init /\ [][Next]_vars

-----------------------------------------------------------------------------
(* The raw-stream specification: one Connection whose peer wrote bytes of  *)
(* its own making: a header that declares any length, then some bytes.     *)

\* the id fields and the length fields the peer writes: lengths 0, 2, 511
\* and 127 * 2^24
RawIds == {<<1, 0, 0, 0>>, <<148, 1, 0, 0>>}
RawLens == {<<0, 0, 0, 0>>, <<2, 0, 0, 0>>, <<255, 1, 0, 0>>, <<0, 0, 0, 127>>}

\* what the peer writes: a part of a header, or a header and up to
\* MaxPayload bytes after it
RawStreams ==
    {Take(id \o len \o body, Min(cut, HEADER_SIZE + Len(body))) :
        id \in RawIds, len \in RawLens, body \in SeqsUpTo({7}, MaxPayload),
        cut \in {3, HEADER_SIZE - 1, HEADER_SIZE + MaxPayload}}

\* Connection::new, with the bytes the peer has written or will write
RawInit ==
    /\ codec = NoCall
    /\ sent = <<>>
    /\ stream \in RawStreams
    /\ peer_closed = FALSE
    /\ pending_data = <<>>
    /\ pc = "idle"
    /\ hdr = NoHdr
    /\ results = <<>>
    /\ delivered = <<>>
    /\ reads = 0
    /\ lastread = "none"
    /\ RouterUnused
    /\ ServerCreated

RawSpec == RawInit /\ [][Next]_vars

-----------------------------------------------------------------------------
(* The router specification: units sharing one DefaultRouter call          *)
(* add_route and handle concurrently.                                      *)

InAddRoute(u) == upc[u] \in {"add_route", "insert"}

\* unit u calls router.add_route(msg_id, h)
AddRouteCall(u, msg_id, h) ==
    /\ upc[u] = "idle"
    /\ ops < MaxOps
    /\ upc' = [upc EXCEPT ![u] = "add_route"]
    /\ uarg' = [uarg EXCEPT ![u] = [msg_id |-> msg_id, handler |-> h]]
    /\ added' = [added EXCEPT ![msg_id].calls = @ + 1, ![msg_id].handler = h]
    /\ ops' = ops + 1
    /\ overlap' = (overlap \/ \E v \in Units : InAddRoute(v))
    /\ UNCHANGED <<codec, connVars, serverVars, routes, locks, uloc, ures>>

\* DashMap::insert takes the write lock of the key's shard
AddRouteLock(u) ==
    /\ upc[u] = "add_route"
    /\ LET s == ShardOf(uarg[u].msg_id) IN
        /\ CanWrite(locks[s])
        /\ locks' = [locks EXCEPT ![s].writer = u]
        /\ uloc' = [uloc EXCEPT ![u] = Some(routes[s])]
    /\ upc' = [upc EXCEPT ![u] = "insert"]
    /\ UNCHANGED <<codec, connVars, serverVars, routes, uarg, ures, added, ops, overlap>>

\* DashMap::insert puts the entry in the table it locked, unlocks, and
\* add_route returns
AddRouteInsert(u) ==
    /\ upc[u] = "insert"
    /\ LET s == ShardOf(uarg[u].msg_id) IN
        /\ routes' = [routes EXCEPT
                ![s] = HashMapInsert(uloc[u].val, uarg[u].msg_id, uarg[u].handler)]
        /\ locks' = [locks EXCEPT ![s].writer = 0]
    /\ added' = [added EXCEPT ![uarg[u].msg_id].done = @ + 1,
                              ![uarg[u].msg_id].last = uarg[u].handler]
    /\ upc' = [upc EXCEPT ![u] = "idle"]
    /\ uarg' = [uarg EXCEPT ![u] = None]
    /\ uloc' = [uloc EXCEPT ![u] = None]
    /\ UNCHANGED <<codec, connVars, serverVars, ures, ops, overlap>>

\* unit u calls router.handle(&req)
HandleCall(u, req) ==
    /\ upc[u] = "idle"
    /\ ops < MaxOps
    /\ upc' = [upc EXCEPT ![u] = "get"]
    /\ uarg' = [uarg EXCEPT ![u] = req]
    /\ ops' = ops + 1
    /\ UNCHANGED <<codec, connVars, serverVars, routes, locks, uloc, ures, added, overlap>>

\* self.routes.get(&req.msg_id()): under the read lock of the shard; Some
\* keeps the read lock for the match arm, None answers not-found
HandleGet(u) ==
    /\ upc[u] = "get"
    /\ LET s == ShardOf(uarg[u].msg_id)
           entry == Lookup(routes[s], uarg[u].msg_id)
           seen == [quiet |-> \A v \in Units : ~InAddRoute(v),
                    reg |-> IF uarg[u].msg_id \in RouteIds
                            THEN added[uarg[u].msg_id] ELSE NoneAdded]
       IN
        /\ CanRead(locks[s])
        /\ IF entry.some
           THEN /\ locks' = [locks EXCEPT ![s].readers = @ \cup {u}]
                /\ uloc' = [uloc EXCEPT ![u] = [entry |-> entry, seen |-> seen]]
                /\ upc' = [upc EXCEPT ![u] = "handler"]
                /\ UNCHANGED <<uarg, ures>>
           ELSE /\ ures' = [ures EXCEPT ![u] =
                        Some([req |-> uarg[u], resp |-> handle_result(entry, uarg[u]),
                              seen |-> seen])]
                /\ upc' = [upc EXCEPT ![u] = "idle"]
                /\ uarg' = [uarg EXCEPT ![u] = None]
                /\ UNCHANGED <<locks, uloc>>
    /\ UNCHANGED <<codec, connVars, serverVars, routes, added, ops, overlap>>

\* handler(req) runs, the read lock is released and handle returns
HandleRun(u) ==
    /\ upc[u] = "handler"
    /\ ures' = [ures EXCEPT ![u] =
            Some([req |-> uarg[u], resp |-> handle_result(uloc[u].entry, uarg[u]),
                  seen |-> uloc[u].seen])]
    /\ locks' = [locks EXCEPT ![ShardOf(uarg[u].msg_id)].readers = @ \ {u}]
    /\ upc' = [upc EXCEPT ![u] = "idle"]
    /\ uarg' = [uarg EXCEPT ![u] = None]
    /\ uloc' = [uloc EXCEPT ![u] = None]
    /\ UNCHANGED <<codec, connVars, serverVars, routes, added, ops, overlap>>

RouterInit == codec = NoCall /\ ConnUnused /\ RouterUnused /\ ServerCreated

RouterNext ==
    \/ \E u \in Units, msg_id \in RouteIds, h \in Handlers : AddRouteCall(u, msg_id, h)
    \/ \E u \in Units : AddRouteLock(u)
    \/ \E u \in Units : AddRouteInsert(u)
    \/ \E u \in Units, req \in HandleReqs : HandleCall(u, req)
    \/ \E u \in Units : HandleGet(u)
    \/ \E u \in Units : HandleRun(u)

RouterSpec == RouterInit /\ [][RouterNext]_vars

-----------------------------------------------------------------------------
(* The re-entrant router specification: as the router specification, with  *)
(* handlers that captured the router and call add_route while they run     *)
(* inside handle.                                                          *)

\* closures that call router.add_route(Target, echo) and then echo
ReHandlers == {"rereg1", "rereg2"}
Target(h) == IF h = "rereg1" THEN 1 ELSE 2

ReIds == {1, 2}
ReReqs == {Request(id, <<>>) : id \in ReIds}

\* handler(req) of a closure that does not touch the router
HandleRunPlain(u) ==
    /\ upc[u] = "handler"
    /\ uloc[u].entry.val \in Handlers
    /\ HandleRun(u)

\* handler(req) of a re-registering closure reaches its add_route call; the
\* Ref that routes.get returned is still alive, so the read lock is held
HandlerAddRoute(u) ==
    /\ upc[u] = "handler"
    /\ uloc[u].entry.val \in ReHandlers
    /\ LET id == Target(uloc[u].entry.val) IN
        /\ uloc' = [uloc EXCEPT ![u] =
                [entry |-> uloc[u].entry, seen |-> uloc[u].seen,
                 nested |-> [msg_id |-> id, handler |-> "echo"]]]
        /\ added' = [added EXCEPT ![id].calls = @ + 1, ![id].handler = "echo"]
    /\ upc' = [upc EXCEPT ![u] = "h_add_route"]
    /\ overlap' = (overlap \/ \E v \in Units : InAddRoute(v))
    /\ UNCHANGED <<codec, connVars, serverVars, routes, locks, uarg, ures, ops>>

\* the nested DashMap::insert takes the write lock of its key's shard
HandlerLock(u) ==
    /\ upc[u] = "h_add_route"
    /\ LET s == ShardOf(uloc[u].nested.msg_id) IN
        /\ CanWrite(locks[s])
        /\ locks' = [locks EXCEPT ![s].writer = u]
        /\ uloc' = [uloc EXCEPT ![u] =
                [entry |-> uloc[u].entry, seen |-> uloc[u].seen,
                 nested |-> uloc[u].nested, table |-> routes[s]]]
    /\ upc' = [upc EXCEPT ![u] = "h_insert"]
    /\ UNCHANGED <<codec, connVars, serverVars, routes, uarg, ures, added, ops, overlap>>

\* the nested insert writes its entry, unlocks, and add_route returns to the
\* handler
HandlerInsert(u) ==
    /\ upc[u] = "h_insert"
    /\ LET s == ShardOf(uloc[u].nested.msg_id) IN
        /\ routes' = [routes EXCEPT
                ![s] = HashMapInsert(uloc[u].table, uloc[u].nested.msg_id,
                                     uloc[u].nested.handler)]
        /\ locks' = [locks EXCEPT ![s].writer = 0]
    /\ added' = [added EXCEPT ![uloc[u].nested.msg_id].done = @ + 1,
                              ![uloc[u].nested.msg_id].last = uloc[u].nested.handler]
    /\ upc' = [upc EXCEPT ![u] = "h_return"]
    /\ UNCHANGED <<codec, connVars, serverVars, uarg, uloc, ures, ops, overlap>>

\* the closure returns its Response, the read lock is released and handle
\* returns
HandlerReturn(u) ==
    /\ upc[u] = "h_return"
    /\ ures' = [ures EXCEPT ![u] =
            Some([req |-> uarg[u], resp |-> Response(uarg[u].msg_id, uarg[u].data),
                  seen |-> uloc[u].seen])]
    /\ locks' = [locks EXCEPT ![ShardOf(uarg[u].msg_id)].readers = @ \ {u}]
    /\ upc' = [upc EXCEPT ![u] = "idle"]
    /\ uarg' = [uarg EXCEPT ![u] = None]
    /\ uloc' = [uloc EXCEPT ![u] = None]
    /\ UNCHANGED <<codec, connVars, serverVars, routes, added, ops, overlap>>

\* the steps of calls that are already running
ReentrantProgress ==
    \/ \E u \in Units : AddRouteLock(u)
    \/ \E u \in Units : AddRouteInsert(u)
    \/ \E u \in Units : HandleGet(u)
    \/ \E u \in Units : HandleRunPlain(u)
    \/ \E u \in Units : HandlerAddRoute(u)
    \/ \E u \in Units : HandlerLock(u)
    \/ \E u \in Units : HandlerInsert(u)
    \/ \E u \in Units : HandlerReturn(u)

ReentrantNext ==
    \/ \E u \in Units, msg_id \in ReIds, h \in {"echo"} \cup ReHandlers :
            AddRouteCall(u, msg_id, h)
    \/ \E u \in Units, req \in ReReqs : HandleCall(u, req)
    \/ ReentrantProgress

ReentrantSpec == RouterInit /\ [][ReentrantNext]_vars

-----------------------------------------------------------------------------
(* The server specification: Server::run over one listener, a task per     *)
(* accepted connection running handle_connection, and the clients.         *)

\* the messages clients write: id 1 is registered, id 9 is not
ServerMsgs == {Request(1, <<7>>), Request(9, <<>>)}

\* the place where a client's write of the frame of m may stop short:
\* after the header when a payload follows, inside the header otherwise
Cuts(m) == IF m.data = <<>> THEN {4} ELSE {HEADER_SIZE}

\* the router handed to Server::new: the echo closure at id 1 and nothing
\* else
ServerRoutes ==
    [s \in Shards |-> IF s = ShardOf(1) THEN HashMapInsert({}, 1, "echo") ELSE {}]

\* DefaultRouter::handle, no add_route running
handle(req) == handle_result(Lookup(routes[ShardOf(req.msg_id)], req.msg_id), req)

\* a frame with an empty payload in place of the Response's (a packing slip)
send_response_NoData(resp) == pack(resp.msg_id, <<>>)

\* Connection::send_response: the bytes handed to write_all
send_response(resp) == pack(resp.msg_id, resp.data)

\* a write_all that is content with the first write (a `write` for
\* `write_all` slip)
write_all_step_Once(buf, n) == [done |-> TRUE, rest |-> <<>>]

\* write_all after stream.write took the first n bytes of buf, n > 0: it is
\* done when nothing is left, otherwise it writes the rest
write_all_step(buf, n) == [done |-> n >= Len(buf), rest |-> Drop(buf, n)]

\* a run that enters its loop whatever bind returned (a `?` slip)
run_bind_Ignore(res) == [pc |-> "accepting", ret |-> None]

\* TcpListener::bind(..).await? and the entry of the loop
run_bind(res) ==
    IF res.ok THEN [pc |-> "accepting", ret |-> None]
    ELSE [pc |-> "stopped", ret |-> Some(Err(FromIoError))]

\* an accept loop that tries again after an error (a retry slip)
run_accept_Retry(res) == [pc |-> "accepting", ret |-> None]

\* the match on listener.accept().await
run_accept(res) ==
    IF res.ok THEN [pc |-> "accepting", ret |-> None]
    ELSE [pc |-> "stopped", ret |-> Some(Err(FromIoError))]

\* handle_connection from the top of its loop, or resumed at the await `at`
\* of read_request with pending_data now buf: up to the next await or return
serve(at, buf, h) ==
    LET r == read_request(at, buf, h) IN
    IF r.ret = <<>>
    THEN [pc |-> r.pc, pending |-> r.pending, hdr |-> r.hdr, resp |-> None,
          wbuf |-> <<>>, ret |-> None, req |-> None]
    ELSE IF ~r.ret[1].ok
    THEN [pc |-> "done", pending |-> r.pending, hdr |-> NoHdr, resp |-> None,
          wbuf |-> <<>>, ret |-> Some(r.ret[1]), req |-> None]
    ELSE [pc |-> "write", pending |-> r.pending, hdr |-> NoHdr,
          resp |-> Some(handle(r.ret[1].val)),
          wbuf |-> send_response(handle(r.ret[1].val)), ret |-> None,
          req |-> Some(r.ret[1].val)]

\* the state of run after a step that took it to r
Run(r) ==
    [pc |-> r.pc, ret |-> r.ret]

\* a task's failure ends the server (a propagation slip)
task_exit_Propagate(r, res) ==
    IF res.some THEN [pc |-> "stopped", ret |-> res] ELSE r

\* the closure given to tokio::spawn: an Err of handle_connection is printed,
\* the JoinHandle was dropped, nothing reaches run
task_exit(r, res) == r

\* a loop that notes the error and goes round again (a missing-return slip)
Failed_KeepGoing(buf, e) ==
    [pc |-> "header", pending |-> buf, hdr |-> NoHdr, resp |-> None, wbuf |-> <<>>,
     ret |-> Some(Err(e)), req |-> None]

\* handle_connection returning Err(e)
Failed(buf, e) ==
    [pc |-> "done", pending |-> buf, hdr |-> NoHdr, resp |-> None, wbuf |-> <<>>,
     ret |-> Some(Err(e)), req |-> None]

\* the task of connection c continues as the outcome next
Continue(c, next) ==
    \E s \in {next} :
        /\ unit' = [unit EXCEPT ![c] = [pc |-> s.pc, pending |-> s.pending,
                                        hdr |-> s.hdr, resp |-> s.resp,
                                        wbuf |-> s.wbuf, ret |-> s.ret]]
        /\ handled' = [handled EXCEPT ![c] =
                IF s.req.some THEN Append(@, [req |-> s.req.val, resp |-> s.resp.val])
                ELSE @]

\* a step of the spawned task of connection c that leaves it as the outcome
\* next
Step(c, next) ==
    \E s \in {next} :
        /\ Continue(c, s)
        /\ run' = task_exit(run, s.ret)

\* a spawn whose task ends when its JoinHandle is dropped (an abort slip)
spawn_Abort(task) ==
    [pc |-> "done", pending |-> task.pending, hdr |-> NoHdr, resp |-> None,
     wbuf |-> <<>>, ret |-> Some(Err("Cancelled")), req |-> None]

\* tokio::spawn(..); the JoinHandle is dropped at once, which detaches the
\* task: it runs on whatever happens to run
spawn(task) == task

\* TcpListener::bind succeeds
Bind ==
    /\ run.pc = "created"
    /\ run' = Run(run_bind(Ok("listener")))
    /\ listener' = "bound"
    /\ UNCHANGED <<codec, connVars, routerVars, stop, cstate, peer, inbox,
                   psent, unit, out, handled, nsent>>

\* TcpListener::bind fails
BindError ==
    /\ run.pc = "created"
    /\ run' = Run(run_bind(Err("io")))
    /\ listener' = "failed"
    /\ UNCHANGED <<codec, connVars, routerVars, stop, cstate, peer, inbox,
                   psent, unit, out, handled, nsent>>

\* the owner of the server gives the stop signal
StopSignal ==
    /\ ~stop
    /\ stop' = TRUE
    /\ UNCHANGED <<codec, connVars, routerVars, run, listener, cstate, peer,
                   inbox, psent, unit, out, handled, nsent>>

\* a client connects: the connection waits in the listener's backlog
Connect(c) ==
    /\ listener = "bound"
    /\ cstate[c] = "none"
    /\ \A d \in Conns : d < c => cstate[d] # "none"
    /\ cstate' = [cstate EXCEPT ![c] = "pending"]
    /\ UNCHANGED <<codec, connVars, routerVars, run, listener, stop, peer,
                   inbox, psent, unit, out, handled, nsent>>

\* the future handed to tokio::spawn, not polled yet
Spawned ==
    [pc |-> "spawned", pending |-> <<>>, hdr |-> NoHdr, resp |-> None,
     wbuf |-> <<>>, ret |-> None, req |-> None]

\* listener.accept() returns Ok: the task is spawned and the loop is back
\* at accept; the runtime polls the task later
Accept(c) ==
    /\ run.pc = "accepting"
    /\ cstate[c] = "pending"
    /\ \A d \in Conns : d < c => cstate[d] # "pending"
    /\ run' = Run(run_accept(Ok(c)))
    /\ cstate' = [cstate EXCEPT ![c] = "accepted"]
    /\ Continue(c, spawn(Spawned))
    /\ UNCHANGED <<codec, connVars, routerVars, listener, stop, peer, inbox,
                   psent, out, nsent>>

\* listener.accept() returns Err
AcceptError ==
    /\ run.pc = "accepting"
    /\ run' = Run(run_accept(Err("io")))
    /\ listener' = "erred"
    /\ UNCHANGED <<codec, connVars, routerVars, stop, cstate, peer, inbox,
                   psent, unit, out, handled, nsent>>

\* the server's end of the connection is open: not accepted yet, or held by
\* a task that has not returned
Open(c) == cstate[c] # "none" /\ unit[c].pc # "done"

\* a client begins to write the frame of m and gets n bytes of it out
ClientSend(c, m, n) ==
    /\ Open(c)
    /\ ~peer[c].closed
    /\ peer[c].unsent = <<>>
    /\ nsent < MaxReqs
    /\ n <= Len(Frame(m))
    /\ peer' = [peer EXCEPT ![c].unsent = Drop(Frame(m), n)]
    /\ inbox' = [inbox EXCEPT ![c] = @ \o Take(Frame(m), n)]
    /\ psent' = [psent EXCEPT ![c] = @ \o Take(Frame(m), n)]
    /\ nsent' = nsent + 1
    /\ UNCHANGED <<codec, connVars, routerVars, run, listener, stop, cstate,
                   unit, out, handled>>

\* a client writes the rest of the frame it began
ClientSendRest(c) ==
    /\ Open(c)
    /\ ~peer[c].closed
    /\ peer[c].unsent # <<>>
    /\ peer' = [peer EXCEPT ![c].unsent = <<>>]
    /\ inbox' = [inbox EXCEPT ![c] = @ \o peer[c].unsent]
    /\ psent' = [psent EXCEPT ![c] = @ \o peer[c].unsent]
    /\ UNCHANGED <<codec, connVars, routerVars, run, listener, stop, cstate,
                   unit, out, handled, nsent>>

\* a client closes its socket, whatever it has written
ClientClose(c) ==
    /\ Open(c)
    /\ ~peer[c].closed
    /\ peer' = [peer EXCEPT ![c].closed = TRUE]
    /\ UNCHANGED <<codec, connVars, routerVars, run, listener, stop, cstate,
                   inbox, psent, unit, out, handled, nsent>>

\* the first poll of the task: handle_connection makes its Connection and
\* runs to the first stream.read
UnitStart(c) ==
    /\ unit[c].pc = "spawned"
    /\ Step(c, serve("header", <<>>, NoHdr))
    /\ UNCHANGED <<codec, connVars, routerVars, listener, stop, cstate,
                   peer, inbox, psent, out, nsent>>

\* the task is suspended in the stream.read of read_exact
Reading(c) == unit[c].pc \in {"header", "body"}

\* stream.read returns the bytes that have arrived, at most a buffer of them
UnitRead(c) ==
    /\ Reading(c)
    /\ inbox[c] # <<>>
    /\ \E n \in {Min(Len(inbox[c]), BufSize)} :
        \E step \in {read_loop_step(unit[c].pending, Take(inbox[c], n))} :
            /\ inbox' = [inbox EXCEPT ![c] = Drop(@, n)]
            /\ Step(c, serve(unit[c].pc, step.val, unit[c].hdr))
    /\ UNCHANGED <<codec, connVars, routerVars, listener, stop, cstate,
                   peer, psent, out, nsent>>

\* stream.read returns 0: the client closed and everything it wrote was read
UnitReadZero(c) ==
    /\ Reading(c)
    /\ inbox[c] = <<>>
    /\ peer[c].closed
    /\ \E step \in {read_loop_step(unit[c].pending, <<>>)} :
        Step(c, IF step.ok THEN serve(unit[c].pc, step.val, unit[c].hdr)
                ELSE Failed(unit[c].pending, step.err))
    /\ UNCHANGED <<codec, connVars, routerVars, listener, stop, cstate,
                   peer, inbox, psent, out, nsent>>

\* a stream.read that gives up on a client that sends nothing (a timeout
\* wrapped around the read)
UnitReadError_Timeout(c) ==
    /\ Reading(c)
    /\ Step(c, Failed(unit[c].pending, FromIoError))
    /\ UNCHANGED <<codec, connVars, routerVars, listener, stop, cstate,
                   peer, inbox, psent, out, nsent>>

\* stream.read returns an io::Error: the client is gone
UnitReadError(c) ==
    /\ Reading(c)
    /\ peer[c].closed
    /\ Step(c, Failed(unit[c].pending, FromIoError))
    /\ UNCHANGED <<codec, connVars, routerVars, listener, stop, cstate,
                   peer, inbox, psent, out, nsent>>

\* stream.write takes n of the bytes write_all still has; when it took the
\* last, send_response returns Ok and the loop goes on to the next
\* read_request
UnitWrite(c, n) ==
    /\ unit[c].pc = "write"
    /\ n \in 1..Len(unit[c].wbuf)
    /\ out' = [out EXCEPT ![c] = @ \o Take(unit[c].wbuf, n)]
    /\ \E w \in {write_all_step(unit[c].wbuf, n)} :
        IF w.done
        THEN Step(c, serve("header", unit[c].pending, NoHdr))
        ELSE /\ unit' = [unit EXCEPT ![c].wbuf = w.rest]
             /\ UNCHANGED <<run, handled>>
    /\ UNCHANGED <<codec, connVars, routerVars, listener, stop, cstate,
                   peer, inbox, psent, nsent>>

\* stream.write returns an io::Error, or takes nothing, which write_all
\* turns into one: the client is gone
UnitWriteError(c) ==
    /\ unit[c].pc = "write"
    /\ peer[c].closed
    /\ Step(c, Failed(unit[c].pending, FromIoError))
    /\ UNCHANGED <<codec, connVars, routerVars, listener, stop, cstate,
                   peer, inbox, psent, out, nsent>>

\* Server::new(addr, router) with the router's routes registered
ServerInit ==
    /\ codec = NoCall
    /\ ConnUnused
    /\ routes = ServerRoutes
    /\ locks = [s \in Shards |-> Unlocked]
    /\ upc = [u \in Units |-> "idle"]
    /\ uarg = [u \in Units |-> None]
    /\ uloc = [u \in Units |-> None]
    /\ ures = [u \in Units |-> None]
    /\ added = [id \in RouteIds |-> NoneAdded]
    /\ ops = 0
    /\ overlap = FALSE
    /\ ServerCreated

\* the steps of the connections' tasks
UnitNext(c) ==
    \/ UnitStart(c)
    \/ UnitRead(c)
    \/ UnitReadZero(c)
    \/ UnitReadError(c)
    \/ \E n \in {HEADER_SIZE, Len(unit[c].wbuf)} : UnitWrite(c, n)
    \/ UnitWriteError(c)

ServerNext ==
    \/ Bind
    \/ BindError
    \/ \E c \in Conns : Connect(c)
    \/ \E c \in Conns : Accept(c)
    \/ AcceptError
    \/ \E c \in Conns, m \in ServerMsgs :
            \E n \in Cuts(m) \cup {Len(Frame(m))} : ClientSend(c, m, n)
    \/ \E c \in Conns : ClientSendRest(c)
    \/ \E c \in Conns : ClientClose(c)
    \/ \E c \in Conns : UnitNext(c)

ServerSpec == ServerInit /\ [][ServerNext]_vars

-----------------------------------------------------------------------------
(* The accept-loop specification: Server::run, the owner's stop signal,    *)
(* and clients that connect and leave.                                     *)

AcceptNext ==
    \/ Bind
    \/ BindError
    \/ StopSignal
    \/ \E c \in Conns : Connect(c)
    \/ \E c \in Conns : Accept(c)
    \/ AcceptError
    \/ \E c \in Conns : ClientClose(c)
    \/ \E c \in Conns : UnitStart(c)
    \/ \E c \in Conns : UnitReadZero(c)
    \/ \E c \in Conns : UnitReadError(c)

AcceptSpec == ServerInit /\ [][AcceptNext]_vars

-----------------------------------------------------------------------------
(* The fair server specification: one client of a server whose bind and    *)
(* accept succeed, under a runtime that polls every ready task and a       *)
(* transport that completes every read and write it can complete.          *)

\* the connection of the client that is followed
LiveConns == {1}

LiveNext ==
    \/ Bind
    \/ \E c \in LiveConns : Connect(c)
    \/ \E c \in LiveConns : Accept(c)
    \/ \E c \in LiveConns, m \in ServerMsgs :
            \E n \in Cuts(m) \cup {Len(Frame(m))} : ClientSend(c, m, n)
    \/ \E c \in LiveConns : ClientSendRest(c)
    \/ \E c \in LiveConns : ClientClose(c)
    \/ \E c \in LiveConns : UnitNext(c)

\* the accept loop is polled when a connection waits; a task is polled when
\* its read has bytes or the end of the stream to return and when its write
\* can complete; errors of the transport are not owed to anyone
Fairness ==
    \A c \in LiveConns :
        /\ WF_vars(Accept(c))
        /\ WF_vars(UnitStart(c))
        /\ WF_vars(UnitRead(c))
        /\ WF_vars(UnitReadZero(c))
        /\ WF_vars((\E n \in {HEADER_SIZE, Len(unit[c].wbuf)} : UnitWrite(c, n))
                    \/ UnitWriteError(c))

LiveSpec == ServerInit /\ [][LiveNext]_vars /\ Fairness

-----------------------------------------------------------------------------
(* The silent-peer specification: the first client connects, writes at     *)
(* most a part of a frame and then neither writes nor closes; a second     *)
(* client connects after it and talks to the server; scheduling is fair.   *)

SilentConn == 1
BusyConn == 2

SilentNext ==
    \/ Bind
    \/ \E c \in {SilentConn, BusyConn} : Connect(c)
    \/ \E c \in {SilentConn, BusyConn} : Accept(c)
    \/ \E m \in ServerMsgs : \E n \in Cuts(m) :
            ClientSend(SilentConn, m, n)
    \/ \E m \in ServerMsgs : \E n \in Cuts(m) \cup {Len(Frame(m))} :
            ClientSend(BusyConn, m, n)
    \/ ClientSendRest(BusyConn)
    \/ ClientClose(BusyConn)
    \/ \E c \in {SilentConn, BusyConn} : UnitNext(c)

SilentFairness ==
    \A c \in {SilentConn, BusyConn} :
        /\ WF_vars(Accept(c))
        /\ WF_vars(UnitStart(c))
        /\ WF_vars(UnitRead(c))
        /\ WF_vars(UnitReadZero(c))
        /\ WF_vars((\E n \in {HEADER_SIZE, Len(unit[c].wbuf)} : UnitWrite(c, n))
                    \/ UnitWriteError(c))

SilentSpec == ServerInit /\ [][SilentNext]_vars /\ SilentFairness

-----------------------------------------------------------------------------
(* Properties of the connection *)

Last(s) == s[Len(s)]

\* the Requests returned Ok so far, in the order returned
RECURSIVE OkValues(_)
OkValues(rs) ==
    IF rs = <<>> THEN <<>>
    ELSE (IF Head(rs).ok THEN <<Head(rs).val>> ELSE <<>>) \o OkValues(Tail(rs))

\* the first k calls returned Ok: no read of theirs failed or found the end
\* of the stream
AllOk(k) == \A j \in 1..k : results[j].ok

\* C1: however the transport splits the bytes of the frames into chunks, the
\* k-th read_request returns exactly the k-th (id, payload) sent: a call
\* fails only on a failed or zero-byte read, and it is still waiting only
\* while bytes of its frame are missing.
ThmPartialDelivery ==
    /\ \A k \in 1..Len(results) :
          AllOk(k) => (k <= Len(sent) /\ results[k].val = sent[k])
    /\ pc = "failed" => (~Last(results).ok /\ lastread \in {"eof", "err"})
    /\ (pc \in {"header", "body"} /\ AllOk(Len(results)) /\ Len(results) < Len(sent)) =>
          Len(delivered) < Len(Frames(Take(sent, Len(results) + 1)))

\* a frame with a payload delivered one byte at a time
WitPartialDelivery ==
    /\ Len(results) = 1
    /\ results[1] = Ok(Request(258, <<7, 9>>))
    /\ Len(delivered) = 10
    /\ reads = 10

\* the bytes the Connection holds: the header the running read_request has
\* taken out of pending_data, then pending_data
Held == (IF pc = "body" THEN hdr.header_bytes ELSE <<>>) \o pending_data

\* C2: successive read_request calls return the messages in the order sent,
\* and as long as no call has failed the frames of the messages returned
\* followed by the bytes the Connection holds are exactly the bytes
\* delivered so far: no byte lost, none duplicated.
ThmCarryover ==
    /\ \A k \in 1..Len(results) : AllOk(k) => results[k] = Ok(sent[k])
    /\ AllOk(Len(results)) => Frames(OkValues(results)) \o Held = delivered

\* two frames delivered by one stream.read, returned by two calls
WitCarryover ==
    /\ reads = 1
    /\ delivered = Frame(Request(2, <<7>>)) \o Frame(Request(258, <<7, 9>>))
    /\ results = <<Ok(Request(2, <<7>>)), Ok(Request(258, <<7, 9>>))>>
    /\ pending_data = <<>>

\* bytes that left pending_data in a step
Consumed ==
    Len(pending_data) + (Len(delivered') - Len(delivered)) - Len(pending_data')

\* C3: bytes leave pending_data only in a step in which read_request
\* returns a Request, and then exactly 8 + len of them; when read_request
\* fails after a header was delivered, the header is still in pending_data.
ClaimWholeMessageConsumed ==
    [][ /\ Consumed > 0 =>
            /\ Len(results') = Len(results) + 1
            /\ Last(results').ok
            /\ Consumed = HEADER_SIZE + Len(Last(results').val.data)
        /\ LET done == Len(Frames(OkValues(results'))) IN
           (pc' = "failed" /\ Len(delivered') >= done + HEADER_SIZE) =>
              /\ Len(pending_data') >= HEADER_SIZE
              /\ Take(pending_data', HEADER_SIZE)
                    = SubSeq(delivered', done + 1, done + HEADER_SIZE)
      ]_vars

\* C4: a transport read of zero bytes makes read_request fail with
\* ConnectionClosed, in the header and in the body, whatever pending_data
\* holds.
ThmZeroReadClosed ==
    lastread = "eof" =>
        /\ pc = "failed"
        /\ results # <<>>
        /\ ~Last(results).ok
        /\ Last(results).err = "ConnectionClosed"

\* the peer closed inside a body, part of it buffered
WitZeroReadClosed ==
    /\ lastread = "eof"
    /\ sent = <<Request(258, <<7, 9>>)>>
    /\ Len(delivered) = 9
    /\ pending_data = <<7>>
    /\ results = <<Err("ConnectionClosed")>>

\* the payload length a frame's header declares
LenField(frame) == read_u32(frame, 4).val

\* the bytes f were delivered, one after the other
InStream(f, bytes) ==
    \E i \in 0..(Len(bytes) - Len(f)) : SubSeq(bytes, i + 1, i + Len(f)) = f

\* C23: the length field of every frame pack produced is the number of
\* payload bytes after the header, and read_request returns a body of
\* exactly the declared length: the Request it returns is, as a frame, a
\* run of the bytes delivered, with no failed call before it its body has
\* the length the sender declared, and while fewer bytes than declared are
\* buffered the call waits in the body.
ThmDeclaredLength ==
    /\ \A k \in 1..Len(sent) :
          /\ LenField(Frame(sent[k])) = Len(Frame(sent[k])) - HEADER_SIZE
          /\ LenField(Frame(sent[k])) = Len(sent[k].data)
    /\ \A k \in 1..Len(results) :
          /\ results[k].ok => InStream(Frame(results[k].val), delivered)
          /\ AllOk(k) => Len(results[k].val.data) = LenField(Frame(sent[k]))
    /\ pc = "body" =>
          /\ hdr.data_len = LenField(hdr.header_bytes)
          /\ Len(pending_data) < hdr.data_len
          /\ AllOk(Len(results)) =>
                hdr.header_bytes = Take(Frame(sent[Len(results) + 1]), HEADER_SIZE)

\* a two-byte body that arrived a byte at a time after its header
WitDeclaredLength ==
    /\ results = <<Ok(Request(258, <<7, 9>>))>>
    /\ LenField(Take(delivered, HEADER_SIZE)) = 2
    /\ reads = 3

\* C26: read_request never awaits the transport for a body of length zero:
\* while the call for a message with an empty payload is awaiting, fewer
\* than 8 bytes of its header are buffered, it returns the Request with the
\* empty payload, and it fails only if the read failed or found the end of
\* the stream before the header was whole (the calls before it having
\* returned Ok).
ThmEmptyPayload ==
    /\ pc = "body" => hdr.data_len > 0
    /\ LET k == Len(results) + 1 IN
        (/\ pc \in {"header", "body"} /\ AllOk(Len(results))
         /\ k <= Len(sent) /\ sent[k].data = <<>>) =>
            /\ pc = "header"
            /\ Len(pending_data) < HEADER_SIZE
    /\ \A k \in 1..Len(results) :
        (AllOk(k - 1) /\ k <= Len(sent) /\ sent[k].data = <<>>) =>
            IF results[k].ok THEN results[k].val = Request(sent[k].msg_id, <<>>)
            ELSE (k = Len(results) /\ pc = "failed") =>
                    Len(delivered) < Len(Frames(Take(sent, k - 1))) + HEADER_SIZE

\* the peer wrote a header declaring no payload and closed: the read that
\* brought the header returned the Request, no other read was made
WitEmptyPayload ==
    /\ sent = <<Request(1, <<>>)>>
    /\ peer_closed
    /\ stream = <<>>
    /\ Len(delivered) = HEADER_SIZE
    /\ lastread = "data"
    /\ results = <<Ok(Request(1, <<>>))>>

\* C27: whatever the peer wrote, read_request fails only with
\* ConnectionClosed, after a read of zero bytes, or with IoError, after a
\* failed read: the header it decodes is of 8 bytes and decodes, whatever
\* length it declares, and with the declared length not yet buffered the
\* call waits in the body.
ThmHeaderNeverMalformed ==
    /\ \A k \in 1..Len(results) :
        ~results[k].ok => results[k].err \in {"ConnectionClosed", "IoError"}
    /\ pc = "failed" =>
            /\ Last(results).err = "ConnectionClosed" <=> lastread = "eof"
            /\ Last(results).err = "IoError" <=> lastread = "err"
    /\ pc = "body" =>
            /\ Len(hdr.header_bytes) = HEADER_SIZE
            /\ InStream(hdr.header_bytes, delivered)
            /\ Len(results) = 0 => hdr.header_bytes = Take(delivered, HEADER_SIZE)
            /\ unpack_header(hdr.header_bytes)
                    = Ok([msg_id |-> hdr.msg_id, data_len |-> hdr.data_len])
            /\ Len(pending_data) < hdr.data_len
    /\ pc = "header" => Len(pending_data) < HEADER_SIZE

\* a header that declares 127 * 2^24 bytes with two bytes after it: the
\* call waited in the body until the peer closed
WitHeaderNeverMalformed ==
    /\ delivered = <<1, 0, 0, 0, 0, 0, 0, 127, 7, 7>>
    /\ pending_data = <<7, 7>>
    /\ results = <<Err("ConnectionClosed")>>

-----------------------------------------------------------------------------
(* Properties of the router *)

\* C8: when handle returns, its Response is h(request) for the handler h
\* registered for request.msg_id at that moment, and Response{404, "Route
\* not found"} when none is registered; handle always returns a Response
\* and its steps leave the routing table unchanged.
ThmDispatch ==
    [][ \A u \in Units :
          /\ (upc[u] \in {"get", "handler"} /\ upc'[u] = "idle") =>
                LET req == uarg[u]
                    table == routes[ShardOf(req.msg_id)]
                IN /\ ures'[u].some
                   /\ ures'[u].val.req = req
                   /\ IF \E h \in Handlers : <<req.msg_id, h>> \in table
                      THEN \E h \in Handlers :
                              /\ <<req.msg_id, h>> \in table
                              /\ ures'[u].val.resp = Apply(h, req)
                      ELSE ures'[u].val.resp = Response(404, RouteNotFound)
          /\ (upc[u] \in {"get", "handler"} /\ upc'[u] # upc[u]) => routes' = routes
      ]_vars

\* one unit was answered by the echo handler, another got not-found
WitDispatch ==
    \E u, v \in Units :
        /\ ures[u].some
        /\ ures[u].val.req = Request(7, <<7>>)
        /\ ures[u].val.resp = Response(7, <<7>>)
        /\ ures[v].some
        /\ ures[v].val.req.msg_id = 999
        /\ ures[v].val.resp = not_found

AllEntries == UNION {routes[s] : s \in Shards}

\* C9: the routing table holds at most one handler per id, the one passed to
\* the add_route for that id that completed last, and nothing for an id no
\* add_route has completed for.
ThmLastWriterWins ==
    \A id \in RouteIds :
        {e \in AllEntries : e[1] = id}
            = (IF added[id].done = 0 THEN {} ELSE {<<id, added[id].last>>})

\* id 7 was answered by echo, then re-registered with the hello handler
WitLastWriterWins ==
    /\ added[7].done = 2
    /\ added[7].last = "hello"
    /\ \E u \in Units :
          /\ ures[u].some
          /\ ures[u].val.req = Request(7, <<7>>)
          /\ ures[u].val.resp = Response(7, <<7>>)
    /\ AllEntries = {<<7, "hello">>}

\* C10: once every add_route call has returned, each id registered by
\* exactly one call maps to the handler of that call and an id never
\* registered maps to nothing; a handle that looks up after the calls
\* returned answers with that handler's output.
ThmConcurrentRegistration ==
    /\ (\A u \in Units : ~InAddRoute(u)) =>
          \A id \in RouteIds :
              /\ added[id].calls = 1 =>
                    Lookup(routes[ShardOf(id)], id) = Some(added[id].handler)
              /\ added[id].calls = 0 => ~Lookup(routes[ShardOf(id)], id).some
    /\ \A u \in Units :
          (ures[u].some /\ ures[u].val.seen.quiet) =>
              /\ ures[u].val.seen.reg.calls = 1 =>
                    ures[u].val.resp
                        = Apply(ures[u].val.seen.reg.handler, ures[u].val.req)
              /\ ures[u].val.seen.reg.calls = 0 => ures[u].val.resp = not_found

\* two overlapping add_route calls for ids 1 and 7 of one shard, then a
\* dispatch to id 7
WitConcurrentRegistration ==
    /\ overlap
    /\ added[1].calls = 1
    /\ added[7].calls = 1
    /\ added[1].done = 1
    /\ added[7].done = 1
    /\ \E u \in Units :
          /\ ures[u].some
          /\ ures[u].val.seen.quiet
          /\ ures[u].val.req = Request(7, <<7>>)
          /\ ures[u].val.resp = Apply(added[7].handler, Request(7, <<7>>))

\* C11: whatever add_route calls run concurrently, the Response of a handle
\* is the not-found Response only if no add_route for its id had completed
\* when it looked up, and otherwise the output of one handler, the one the
\* add_route for that id that completed last before the lookup installed.
ThmNoTornRead ==
    \A u \in Units :
        ures[u].some =>
            LET r == ures[u].val IN
            r.resp = (IF r.seen.reg.done = 0 THEN not_found
                      ELSE Apply(r.seen.reg.last, r.req))

\* a handle of id 7 looked up while a second add_route for id 7 was running
WitNoTornRead ==
    \E u \in Units :
        /\ ures[u].some
        /\ ~ures[u].val.seen.quiet
        /\ ures[u].val.req = Request(7, <<7>>)
        /\ ures[u].val.seen.reg.calls = 2
        /\ ures[u].val.seen.reg.done = 1
        /\ ures[u].val.seen.reg.last = "echo"
        /\ ures[u].val.seen.reg.handler = "hello"
        /\ ures[u].val.resp = Response(7, <<7>>)

\* a unit is inside an add_route call that has not got its write lock yet
WaitingInAddRoute(u) == upc[u] \in {"add_route", "h_add_route"}

\* C12: add_route can be called concurrently with handle and with other
\* add_route calls, also from a handler running inside handle: no reachable
\* state has an add_route waiting for its lock while no running call can
\* take a step, so every add_route call returns.
ClaimAddRouteReturns ==
    (\E u \in Units : WaitingInAddRoute(u)) => ENABLED ReentrantProgress

-----------------------------------------------------------------------------
(* Properties of the codec *)

\* C5: unpack_header applied to the first 8 bytes of pack(id, payload)
\* gives back (id, len(payload)), and the bytes of the frame after the
\* first 8 are exactly the payload.
ThmRoundTrip ==
    (codec.op = "unpack" /\ Len(codec.header) = 8) =>
        /\ codec.res = Ok([msg_id |-> codec.msg_id, data_len |-> Len(codec.data)])
        /\ Drop(codec.bytes, 8) = codec.data

WitRoundTrip ==
    /\ codec.op = "unpack"
    /\ Len(codec.header) = 8
    /\ codec.msg_id = 16909060
    /\ codec.data = <<255, 1>>
    /\ codec.res.ok

\* the value of four bytes read least significant byte first
LittleEndianValue(b, at) ==
    b[at] + b[at + 1] * 256 + b[at + 2] * 65536 + b[at + 3] * 16777216

\* C6: a frame is the 4 bytes of the id in little-endian order, the 4 bytes
\* of the payload length in little-endian order, then the payload and
\* nothing else; unpack_header reads the two fields in that byte order.
ThmWireFormat ==
    /\ codec.op \in {"pack", "unpack"} =>
          /\ Len(codec.bytes) = 8 + Len(codec.data)
          /\ codec.bytes[1] = codec.msg_id % 256
          /\ codec.bytes[2] = (codec.msg_id \div 256) % 256
          /\ codec.bytes[3] = (codec.msg_id \div 65536) % 256
          /\ codec.bytes[4] = (codec.msg_id \div 16777216) % 256
          /\ codec.bytes[5] = Len(codec.data) % 256
          /\ codec.bytes[6] = (Len(codec.data) \div 256) % 256
          /\ codec.bytes[7] = (Len(codec.data) \div 65536) % 256
          /\ codec.bytes[8] = (Len(codec.data) \div 16777216) % 256
          /\ \A i \in 1..Len(codec.data) : codec.bytes[8 + i] = codec.data[i]
    /\ (codec.op = "unpack" /\ Len(codec.header) >= 8) =>
          /\ codec.res.ok
          /\ codec.res.val.msg_id = LittleEndianValue(codec.header, 1)
          /\ codec.res.val.data_len = LittleEndianValue(codec.header, 5)

WitWireFormat ==
    /\ codec.op = "unpack"
    /\ codec.msg_id = 2147483647
    /\ codec.bytes = <<255, 255, 255, 127, 1, 0, 0, 0, 255>>
    /\ Len(codec.header) = 8

\* C7: unpack_header succeeds on exactly 8 bytes, and on fewer than 8 bytes
\* it fails with ZerustError::InvalidHeader and no other error kind.
ClaimHeaderBoundary ==
    codec.op = "unpack" =>
        /\ Len(codec.header) = 8 => codec.res.ok
        /\ Len(codec.header) < 8 => (~codec.res.ok /\ codec.res.err = "InvalidHeader")

-----------------------------------------------------------------------------
(* Properties of the server *)

\* the complete messages in the bytes b, in the order they begin
RECURSIVE Parse(_)
Parse(b) ==
    IF Len(b) < 8 THEN <<>>
    ELSE LET n == LittleEndianValue(b, 5) IN
         IF Len(b) < 8 + n THEN <<>>
         ELSE <<Request(LittleEndianValue(b, 1), SubSeq(b, 9, 8 + n))>>
              \o Parse(Drop(b, 8 + n))

\* the frames of the Responses of the dispatches hs, one after the other
RECURSIVE RespFrames(_)
RespFrames(hs) ==
    IF hs = <<>> THEN <<>>
    ELSE pack(Head(hs).resp.msg_id, Head(hs).resp.data) \o RespFrames(Tail(hs))

\* the bytes a are the first bytes of b
IsPrefix(a, b) == Len(a) <= Len(b) /\ a = Take(b, Len(a))

\* the ids that have a handler
Registered == {e[1] : e \in AllEntries}

\* C13: on each connection the i-th dispatch is of the i-th complete message
\* the client wrote and yields the router's result for it, the transport
\* holds the first bytes of the frames of those results in that order, and
\* a dispatch is made only when the frames of all earlier ones are written
\* in full.
ThmInOrder ==
    \A c \in Conns :
        LET reqs == Parse(psent[c])
            n == Len(handled[c]) IN
        /\ n <= Len(reqs)
        /\ \A i \in 1..n : handled[c][i] = [req |-> reqs[i], resp |-> handle(reqs[i])]
        /\ IsPrefix(out[c], RespFrames(handled[c]))
        /\ n > 0 => Len(out[c]) >= Len(RespFrames(Take(handled[c], n - 1)))
        /\ unit[c].pc = "write" =>
                /\ unit[c].resp = Some(handled[c][n].resp)
                /\ Len(out[c]) < Len(RespFrames(handled[c]))

WitInOrder ==
    \E c \in Conns :
        /\ handled[c] = <<[req |-> Request(1, <<7>>), resp |-> Response(1, <<7>>)],
                          [req |-> Request(9, <<>>), resp |-> Response(404, RouteNotFound)]>>
        /\ unit[c].pc = "write"
        /\ out[c] = pack(1, <<7>>)

\* C14: the step in which a connection's task ends in failure changes
\* neither run nor the listener nor the set of accepted connections nor any
\* other connection's task, input, output or dispatches; run returns only
\* from a failed bind or accept.
ThmFailureIsolation ==
    [][/\ run'.pc = "stopped" => listener' \in {"failed", "erred"}
       /\ \A c \in Conns :
            (unit[c].pc # "done" /\ unit'[c].pc = "done") =>
                /\ run' = run /\ listener' = listener /\ cstate' = cstate
                /\ \A d \in Conns \ {c} :
                    /\ unit'[d] = unit[d] /\ out'[d] = out[d]
                    /\ inbox'[d] = inbox[d] /\ handled'[d] = handled[d]]_vars

WitFailureIsolation ==
    \E c, d \in Conns :
        /\ unit[c].pc = "done" /\ unit[c].ret = Some(Err(FromIoError))
        /\ run.pc = "accepting"
        /\ unit[d].pc = "write" /\ out[d] # <<>>

\* C15: the response written for a message whose id has no handler is the
\* frame pack(404, "Route not found"), and writing it leaves the task in
\* its loop and the server running.
ThmNotFoundContinues ==
    [][\A c \in Conns :
        (/\ unit[c].pc = "write" /\ Len(out'[c]) = Len(out[c]) + Len(unit[c].wbuf)
         /\ Last(handled[c]).req.msg_id \notin Registered) =>
            /\ out'[c] = RespFrames(Take(handled[c], Len(handled[c]) - 1))
                            \o pack(404, RouteNotFound)
            /\ unit'[c].pc \in {"header", "body", "write"}
            /\ unit'[c].ret = None
            /\ run' = run]_vars

WitNotFoundContinues ==
    \E c \in Conns :
        /\ handled[c] = <<[req |-> Request(9, <<>>), resp |-> Response(404, RouteNotFound)],
                          [req |-> Request(1, <<7>>), resp |-> Response(1, <<7>>)]>>
        /\ out[c] = pack(404, RouteNotFound) \o pack(1, <<7>>)
        /\ unit[c].pc = "header"

\* the client of c closed after writing only a part of its last frame
Truncated(c) ==
    /\ peer[c].closed
    /\ Len(Frames(Parse(psent[c]))) < Len(psent[c])

\* C16: when a client closed after a part of a header or of a body, only
\* its complete messages are dispatched, the transport holds response frames
\* of those and nothing else, and once everything it wrote is read the task
\* can only end; when it has ended on the close, every complete message has
\* been answered.
ThmTruncatedNoReply ==
    \A c \in Conns :
        Truncated(c) =>
            LET reqs == Parse(psent[c])
                n == Len(handled[c]) IN
            /\ n <= Len(reqs)
            /\ \A i \in 1..n : handled[c][i].req = reqs[i]
            /\ IsPrefix(out[c], RespFrames(handled[c]))
            /\ (Reading(c) /\ inbox[c] = <<>>) =>
                    (ENABLED UnitReadZero(c) /\ ~ENABLED UnitRead(c))
            /\ (unit[c].pc = "done" /\ unit[c].ret = Some(Err("ConnectionClosed"))) =>
                    (n = Len(reqs) /\ out[c] = RespFrames(handled[c]))

WitTruncatedNoReply ==
    \E c \in Conns :
        /\ peer[c].closed
        /\ psent[c] = pack(1, <<7>>) \o Take(pack(1, <<7>>), 8)
        /\ unit[c].pc = "done" /\ unit[c].ret = Some(Err("ConnectionClosed"))
        /\ out[c] = pack(1, <<7>>)

\* C17: once the stop signal is given, run accepts no further connection.
ClaimStopObserved ==
    [][stop => \A c \in Conns : cstate'[c] = "accepted" => cstate[c] = "accepted"]_vars

\* C18: once run has returned, every accepted connection still has its
\* task, and a task has ended only on an error of its own read or write,
\* its client gone.
ThmTasksOutliveRun ==
    run.pc = "stopped" =>
        \A c \in Conns :
            /\ cstate[c] = "accepted" =>
                    unit[c].pc \in {"spawned", "header", "body", "write", "done"}
            /\ unit[c].pc = "done" =>
                /\ peer[c].closed
                /\ unit[c].ret \in {Some(Err("ConnectionClosed")), Some(Err("IoError"))}

WitTasksOutliveRun ==
    \E c \in Conns :
        /\ run.pc = "stopped" /\ listener = "erred"
        /\ unit[c].pc = "write"
        /\ out[c] = Take(pack(1, <<7>>), HEADER_SIZE)

\* C19: after an error of accept, run has returned Err(IoError), and from
\* then on no connection is accepted and run's result stays.
ThmAcceptErrorFatal ==
    /\ [](listener = "erred" =>
            (run.pc = "stopped" /\ run.ret = Some(Err("IoError"))))
    /\ [][listener = "erred" =>
            (/\ run' = run /\ listener' = listener
             /\ \A c \in Conns : cstate'[c] = "accepted" => cstate[c] = "accepted")]_vars

WitAcceptErrorFatal ==
    \E c, d \in Conns :
        /\ listener = "erred"
        /\ cstate[c] = "accepted" /\ cstate[d] = "pending"
        /\ inbox[d] # <<>>

\* C20: run goes from created to accepting or stopped and from accepting to
\* stopped, and nowhere else; a connection is accepted and a task exists
\* only if bind succeeded; a failed bind makes run return Err(IoError) with
\* no connection accepted; after run returned nothing is accepted.
ThmLifecycle ==
    /\ [](/\ (\E c \in Conns : cstate[c] = "accepted" \/ unit[c].pc # "none") =>
                listener \in {"bound", "erred"}
          /\ run.pc = "created" => listener = "none"
          /\ run.pc = "accepting" => listener = "bound"
          /\ listener = "failed" =>
                /\ run.pc = "stopped" /\ run.ret = Some(Err("IoError"))
                /\ \A c \in Conns : cstate[c] = "none" /\ unit[c].pc = "none")
    /\ [][/\ run'.pc # run.pc =>
                <<run.pc, run'.pc>> \in {<<"created", "accepting">>,
                                         <<"created", "stopped">>,
                                         <<"accepting", "stopped">>}
          /\ run.pc = "stopped" =>
                \A c \in Conns :
                    /\ cstate'[c] = "accepted" => cstate[c] = "accepted"
                    /\ unit[c].pc = "none" => unit'[c].pc = "none"]_vars

WitLifecycle ==
    /\ listener = "failed"
    /\ run = [pc |-> "stopped", ret |-> Some(Err("IoError"))]

\* the frames of the router's results for the first k complete messages the
\* client of c wrote
Answers(c, k) ==
    LET reqs == Take(Parse(psent[c]), Min(k, Len(Parse(psent[c])))) IN
    RespFrames([i \in 1..Len(reqs) |-> [req |-> reqs[i], resp |-> handle(reqs[i])]])

\* C21: what a connection has been sent is always a prefix of the frames of
\* the router's results for the complete messages of its client, in order,
\* and under fair scheduling once the client of an accepted connection has
\* written k complete messages the transport comes to hold the frames of
\* all k results, unless the client closes; the bytes of pack(1, P) are
\* answered by the bytes of pack(1, P).
ThmEndToEnd ==
    /\ [](\A c \in LiveConns : IsPrefix(out[c], Answers(c, Len(Parse(psent[c])))))
    /\ \A c \in LiveConns : \A k \in 1..MaxReqs :
            (cstate[c] = "accepted" /\ Len(Parse(psent[c])) >= k)
                ~> (peer[c].closed \/ Len(out[c]) >= Len(Answers(c, k)))

WitEndToEnd ==
    \E c \in LiveConns :
        /\ ~peer[c].closed
        /\ psent[c] = pack(1, <<7>>)
        /\ out[c] = pack(1, <<7>>)
        /\ unit[c].pc = "header"

\* C22: while send_response is writing, the transport holds the frames of
\* the earlier Responses and the bytes of this one that write_all has got
\* out so far, in order, and write_all still has the rest; when the task is
\* back in read_request, every send_response has returned Ok and the
\* transport holds the whole frame of every Response.
ThmWriteAll ==
    \A c \in Conns :
        /\ unit[c].pc = "write" =>
                (unit[c].wbuf # <<>> /\ out[c] \o unit[c].wbuf = RespFrames(handled[c]))
        /\ Reading(c) => out[c] = RespFrames(handled[c])

WitWriteAll ==
    \E c \in Conns :
        /\ handled[c] = <<[req |-> Request(1, <<7>>), resp |-> Response(1, <<7>>)],
                          [req |-> Request(1, <<7>>), resp |-> Response(1, <<7>>)]>>
        /\ unit[c].pc = "write"
        /\ unit[c].wbuf = <<7>>
        /\ out[c] = pack(1, <<7>>) \o Take(pack(1, <<7>>), 8)

\* C24: a task dispatches no more than the complete messages its client
\* wrote; when it ends with ConnectionClosed the client had closed, every
\* byte it wrote was read and each of its complete messages answered in
\* full; and under fair scheduling the task of an accepted connection whose
\* client closed comes to its end.
ThmClosedTerminates ==
    /\ [](\A c \in LiveConns :
            /\ Len(handled[c]) <= Len(Parse(psent[c]))
            /\ (unit[c].pc = "done" /\ unit[c].ret = Some(Err("ConnectionClosed"))) =>
                    /\ peer[c].closed
                    /\ inbox[c] = <<>>
                    /\ Len(handled[c]) = Len(Parse(psent[c]))
                    /\ out[c] = RespFrames(handled[c]))
    /\ \A c \in LiveConns :
            (peer[c].closed /\ cstate[c] = "accepted") ~> (unit[c].pc = "done")

\* the client closed after the header of its second frame: the first was
\* answered, then the read of zero bytes ended the task
WitClosedTerminates ==
    \E c \in LiveConns :
        /\ peer[c].closed
        /\ psent[c] = pack(1, <<7>>) \o Take(pack(1, <<7>>), HEADER_SIZE)
        /\ out[c] = pack(1, <<7>>)
        /\ unit[c].pc = "done"
        /\ unit[c].ret = Some(Err("ConnectionClosed"))

\* C25: a task ends in the step in which its read_request or its
\* send_response fails, with that error as its result, and from then on
\* nothing is read from its transport, nothing dispatched and nothing
\* written, whatever pending_data holds.
ThmFailureTerminal ==
    [][\A c \in Conns :
        /\ (unit[c].ret = None /\ unit'[c].ret # None) =>
                /\ unit'[c].pc = "done"
                /\ unit'[c].ret \in {Some(Err("ConnectionClosed")), Some(Err("IoError"))}
                /\ out'[c] = out[c]
                /\ handled'[c] = handled[c]
        /\ unit[c].ret # None =>
                /\ unit'[c] = unit[c]
                /\ inbox'[c] = inbox[c]
                /\ out'[c] = out[c]
                /\ handled'[c] = handled[c]]_vars

\* a whole second message was buffered when the write of the first
\* response failed
WitFailureTerminal ==
    \E c \in Conns :
        /\ unit[c].pc = "done"
        /\ unit[c].ret = Some(Err("IoError"))
        /\ unit[c].pending = pack(1, <<7>>)
        /\ Len(handled[c]) = 1
        /\ out[c] = <<>>

\* C28: the task of a client that has written no complete message and has
\* not closed stays suspended in read_request, with no result, nothing
\* dispatched and nothing written; meanwhile, under fair scheduling, a
\* client that connects after it does not stay unaccepted, and again and
\* again every complete message it has written is answered in full, unless
\* it closes.
ThmSilentPeer ==
    /\ [](cstate[SilentConn] = "accepted" =>
            /\ unit[SilentConn].pc = "spawned" \/ Reading(SilentConn)
            /\ unit[SilentConn].ret = None
            /\ handled[SilentConn] = <<>>
            /\ out[SilentConn] = <<>>)
    /\ []<>(cstate[BusyConn] # "pending")
    /\ []<>(\/ cstate[BusyConn] # "accepted"
            \/ peer[BusyConn].closed
            \/ out[BusyConn] = Answers(BusyConn, Len(Parse(psent[BusyConn]))))

\* the first client stopped inside its header, its task holds the four
\* bytes and waits; the second client has its answer
WitSilentPeer ==
    /\ cstate[SilentConn] = "accepted"
    /\ ~peer[SilentConn].closed
    /\ unit[SilentConn].pc = "header"
    /\ Len(unit[SilentConn].pending) = 4
    /\ psent[BusyConn] = pack(1, <<7>>)
    /\ out[BusyConn] = pack(1, <<7>>)

====
